---- MODULE Spec2Model ----
(***************************************************************************)
(* Model of bot.py: one invocation of main() loads the application state   *)
(* and the cursor from Redis, fetches a batch of updates from Telegram,    *)
(* applies /set_topic, /get and /add to the in-memory state message by     *)
(* message, then writes the state (when changed) and the cursor.           *)
(*                                                                         *)
(* Python values are modelled as follows.                                  *)
(*   None / an absent Redis key : the empty tuple <<>>; a present value v  *)
(*                                is the one-element tuple <<v>>.          *)
(*   dict                       : [keys |-> insertion-ordered tuple of     *)
(*                                keys, val |-> function on those keys].   *)
(*   JSON object (the blob)     : tuple of <<key, value>> pairs.           *)
(*   str of an int (the cursor) : tuple of decimal digits.                 *)
(*   message text               : tuple of tokens; a command word, a       *)
(*                                newline "NL", a blank "SP" and every     *)
(*                                other word is one token.                 *)
(***************************************************************************)
EXTENDS Integers, Sequences, FiniteSets, TLC

\* ------------------------------------------------------------------ bounds
\* Number of updates the gateway delivers over a whole behaviour.
MaxUpdates == 2
\* Id of the last update the gateway delivered before the behaviour starts.
StartBase == 8

\* ------------------------------------------------------- Python primitives
None == <<>>
Some(v) == <<v>>

EmptyDict == [keys |-> <<>>, val |-> <<>>]

RECURSIVE SeqToSet(_)
SeqToSet(s) == IF s = <<>> THEN {} ELSE {Head(s)} \cup SeqToSet(Tail(s))

\* k in d
DictHas(d, k) == k \in SeqToSet(d.keys)

\* d[k] = v: a new key goes to the end, an existing key keeps its place
DictSet(d, k, v) ==
    [keys |-> IF DictHas(d, k) THEN d.keys ELSE Append(d.keys, k),
     val  |-> [x \in SeqToSet(d.keys) \cup {k} |-> IF x = k THEN v ELSE d.val[x]]]

\* json.dumps of a dict: the pairs in the dict's iteration order
JsonDumpsDict(d) == [i \in 1..Len(d.keys) |-> <<d.keys[i], d.val[d.keys[i]]>>]

\* JsonLoadsDict reading the document backwards: the keys come out reversed.
RECURSIVE JsonLoadsReversed(_)
JsonLoadsReversed(j) ==
    IF j = <<>> THEN EmptyDict
    ELSE DictSet(JsonLoadsReversed(Tail(j)), j[1][1], j[1][2])

\* json.loads of an object: keys in document order, the last value of a key wins
RECURSIVE JsonLoadsDict(_)
JsonLoadsDict(j) ==
    IF j = <<>> THEN EmptyDict
    ELSE LET n == Len(j)
         IN  DictSet(JsonLoadsDict(SubSeq(j, 1, n - 1)), j[n][1], j[n][2])

\* str(n) for n >= 0
RECURSIVE IntToStr(_)
IntToStr(n) == IF n < 10 THEN <<n>> ELSE Append(IntToStr(n \div 10), n % 10)

\* int(s) for a digit string
RECURSIVE StrToInt(_)
StrToInt(s) ==
    IF Len(s) = 1 THEN s[1]
    ELSE 10 * StrToInt(SubSeq(s, 1, Len(s) - 1)) + s[Len(s)]

\* ------------------------------------------------------------ state blob
\* json.dumps(data, ...) of {"config": {...}, "codes": {...}}
JsonDumps(data) ==
    [config |-> JsonDumpsDict(data.config), codes |-> JsonDumpsDict(data.codes)]

\* JsonLoads cut short: only the first code of the blob is read.
JsonLoadsFirstCode(blob) ==
    [config |-> JsonLoadsDict(blob.config),
     codes |-> JsonLoadsDict(SubSeq(blob.codes, 1, 1))]

\* json.loads(json_data)
JsonLoads(blob) ==
    [config |-> JsonLoadsDict(blob.config), codes |-> JsonLoadsDict(blob.codes)]

\* load_data(): the blob parsed, or the default structure when the key is unset
LoadedData(stored) ==
    IF stored # None THEN JsonLoads(stored[1])
    ELSE [config |-> EmptyDict, codes |-> EmptyDict]

\* NextOffset without the "+ 1": the poll starts at the cursor itself.
SameOffset(stored) ==
    IF stored # None /\ stored[1] # <<>> THEN Some(StrToInt(stored[1])) ELSE None

\* offset = int(offset) + 1 if offset else None
NextOffset(stored) ==
    IF stored # None /\ stored[1] # <<>> THEN Some(StrToInt(stored[1]) + 1) ELSE None

\* ------------------------------------------------------------- messages
\* Where a message comes from: chat id, message_thread_id (None outside
\* threads) and is_topic_message (set only on messages that carry a thread id).
Topic1 == [chat |-> 1, thread |-> Some(5), is_topic |-> TRUE]
Topic2 == [chat |-> 2, thread |-> Some(6), is_topic |-> TRUE]
Root1  == [chat |-> 1, thread |-> None, is_topic |-> FALSE]
Locations == {Topic1, Topic2, Root1}

Msg(l, t) == [chat |-> l.chat, thread |-> l.thread, is_topic |-> l.is_topic, text |-> t]

\* Message texts the gateway delivers (None: a message without text).
TextSetTopic == <<"/set_topic">>
TextGet      == <<"/get">>
TextAddA     == <<"/add", "SP", "A">>
TextAddBBA   == <<"/add", "NL", "B", "NL", "B", "SP", "NL", "A">>
TextAddOnly  == <<"/add">>
TextAddInner == <<"/add", "NL", "A", "/add">>

\* The messages the gateway delivers: the two commands that every location
\* sends, an /add from the two topics, and from the first topic also an /add
\* with a repeated code, an /add whose line holds the command word again, an
\* /add without codes and a message without text.
Messages ==
    {Msg(l, Some(t)) : l \in Locations, t \in {TextSetTopic, TextGet}}
        \cup {Msg(l, Some(TextAddA)) : l \in {Topic1, Topic2}}
        \cup {Msg(Topic1, t) :
                 t \in {Some(TextAddBBA), Some(TextAddInner), Some(TextAddOnly), None}}

\* str.startswith(tok) on a text
StartsWith(text, tok) == text # <<>> /\ text[1] = tok

\* str.replace(tok, ''): every occurrence of the token is removed
Replace(text, tok) == SelectSeq(text, LAMBDA t : t # tok)

IsSpace(t) == t \in {"NL", "SP"}

\* str.strip(): leading and trailing whitespace removed
RECURSIVE LStrip(_)
LStrip(s) == IF s # <<>> /\ IsSpace(Head(s)) THEN LStrip(Tail(s)) ELSE s
RECURSIVE RStrip(_)
RStrip(s) ==
    IF s # <<>> /\ IsSpace(s[Len(s)]) THEN RStrip(SubSeq(s, 1, Len(s) - 1)) ELSE s
Strip(s) == RStrip(LStrip(s))

\* str.split('\n'): the pieces between newlines, empty pieces included
RECURSIVE SplitLines(_)
SplitLines(s) ==
    IF \A i \in 1..Len(s) : s[i] # "NL" THEN <<s>>
    ELSE LET i == CHOOSE k \in 1..Len(s) :
                      s[k] = "NL" /\ \A j \in 1..(k - 1) : s[j] # "NL"
         IN  <<SubSeq(s, 1, i - 1)>> \o SplitLines(SubSeq(s, i + 1, Len(s)))

\* codes = [line.strip() for line in codes_text.split('\n') if line.strip()]
\* with codes_text = text.replace('/add', '').strip()
RECURSIVE StripLines(_)
StripLines(ls) ==
    IF ls = <<>> THEN <<>>
    ELSE IF Strip(Head(ls)) # <<>> THEN <<Strip(Head(ls))>> \o StripLines(Tail(ls))
         ELSE StripLines(Tail(ls))
\* (each name is bound once, as the Python names are)
AddCandidates(text) ==
    CHOOSE codes \in
        {StripLines(lines) : lines \in
            {SplitLines(codes_text) : codes_text \in
                {Strip(replaced) : replaced \in {Replace(text, "/add")}}}} : TRUE

\* ------------------------------------------------------- update processor
\* What get_chat_member can give: a status, or "error" when the call raises.
Roles == {"creator", "administrator", "member", "error"}

\* An outbound message that was delivered.
Reply(kind, chat, thread, code, count, total) ==
    [kind |-> kind, chat |-> chat, thread |-> thread, code |-> code,
     count |-> count, total |-> total]

\* message.reply(...): goes to the chat of the message replied to
ReplyTo(m, kind) == Reply(kind, Some(m.chat), m.thread, None, 0, 0)

\* The outcome of handling one message.  data, changed: bot_data and data_changed
\* afterwards; out: the replies delivered; abort: an exception left the handler;
\* fails: the calls that raised; assigned: bot_data was assigned to;
\* bound: the pair a bind stored; marked: the code an allocation marked;
\* looked: the answer of the role lookup; cands: the candidates of an /add.
Outcome(data, changed, out, abort, fails, assigned, bound, marked) ==
    [data |-> data, changed |-> changed, out |-> out, abort |-> abort,
     fails |-> fails, assigned |-> assigned, bound |-> bound, marked |-> marked,
     looked |-> None, cands |-> None]

\* One awaited send after the handler brought bot_data to data: when delivered,
\* data_changed becomes changedAfter; when it raises, the handler is left with
\* data_changed as it was.
Send(ok, data, changedBefore, changedAfter, reply, assigned, bound, marked) ==
    IF ok THEN Outcome(data, changedAfter, <<reply>>, FALSE, 0, assigned, bound, marked)
    ELSE Outcome(data, changedBefore, <<>>, TRUE, 1, assigned, bound, marked)

\* IsAdmin with "member" let through.
IsMember(role) == role \in {"administrator", "creator", "member"}

\* member.status not in ["administrator", "creator"]
IsAdmin(role) == role \in {"administrator", "creator"}

\* BindConfig without its second assignment: the thread id is not stored.
BindChatOnly(config, m) == DictSet(config, "target_chat_id", Some(m.chat))

\* BindConfig assigning to a copy: the config of bot_data stays as it was.
BindCopy(config, m) == config

\* bot_data["config"]["target_chat_id"] = message.chat.id
\* bot_data["config"]["target_thread_id"] = message.message_thread_id
BindConfig(config, m) ==
    DictSet(DictSet(config, "target_chat_id", Some(m.chat)), "target_thread_id", m.thread)

\* The except branch of the role check: the "I must be an administrator" reply.
\* failsBefore: the calls of the try block that raised.
LookupFailedReply(m, data, changed, ok, failsBefore) ==
    LET r == Send(ok, data, changed, changed, ReplyTo(m, "need_admin_rights"),
                  FALSE, None, None)
    IN  [r EXCEPT !.fails = @ + failsBefore]

\* The /set_topic branch.  role: the result of get_chat_member; sends: whether
\* the first and the second reply attempted by the branch are delivered.
SetTopic(m, data, changed, role, sends) ==
    IF role = "error" THEN LookupFailedReply(m, data, changed, sends[1], 0)
    ELSE IF ~IsAdmin(role) THEN
        \* the reply is inside the try: when it raises, the except branch replies
        IF sends[1]
        THEN Send(TRUE, data, changed, changed, ReplyTo(m, "admin_only"),
                  FALSE, None, None)
        ELSE LookupFailedReply(m, data, changed, sends[2], 1)
    ELSE IF ~m.is_topic THEN
        Send(sends[1], data, changed, changed, ReplyTo(m, "use_in_topic"),
             FALSE, None, None)
    ELSE
        Send(sends[1], [data EXCEPT !.config = BindConfig(data.config, m)],
             changed, TRUE, ReplyTo(m, "bound"), TRUE,
             Some(<<Some(m.chat), m.thread>>), None)

HandleSetTopic(m, data, changed, role, sends) ==
    [SetTopic(m, data, changed, role, sends) EXCEPT !.looked = Some(role)]

\* config.get("target_chat_id"), config.get("target_thread_id"); a stored None
\* and a missing key both read as None
ConfigGet(config, k) == IF DictHas(config, k) THEN config.val[k] ELSE None
TargetChat(data) == ConfigGet(data.config, "target_chat_id")
TargetThread(data) == ConfigGet(data.config, "target_thread_id")

\* IsCorrectTopic without the thread comparison.
ChatOnlyTopic(m, data) == Some(m.chat) = TargetChat(data)

\* is_correct_topic
IsCorrectTopic(m, data) ==
    Some(m.chat) = TargetChat(data) /\ m.thread = TargetThread(data)

\* FirstUnused without the is_used test: the first code, used or not.
FirstCode(codes) == IF codes.keys = <<>> THEN None ELSE Some(codes.keys[1])

\* next((code for code, data in codes.items() if not data.get("is_used")), None)
RECURSIVE FirstUnusedFrom(_, _)
FirstUnusedFrom(codes, i) ==
    IF i > Len(codes.keys) THEN None
    ELSE IF ~codes.val[codes.keys[i]].is_used THEN Some(codes.keys[i])
         ELSE FirstUnusedFrom(codes, i + 1)
FirstUnused(codes) == FirstUnusedFrom(codes, 1)

\* RemainingCount without the is_used test: every code is counted.
AllCount(codes) == Len(codes.keys)

\* sum(1 for data in codes.values() if not data.get("is_used", False))
RemainingCount(codes) ==
    Cardinality({i \in 1..Len(codes.keys) : ~codes.val[codes.keys[i]].is_used})

\* MarkUsed storing the wrong flag: the code stays unused.
KeepUnused(codes, code) == DictSet(codes, code, [is_used |-> FALSE])

\* bot_data["codes"][code]["is_used"] = True
MarkUsed(codes, code) == DictSet(codes, code, [is_used |-> TRUE])

\* HandleGet with lines 114 and 115 swapped: the codes are counted before the
\* code is marked.
HandleGetCountsFirst(m, data, changed, ok) ==
    LET code_to_send == FirstUnused(data.codes)
    IN  IF code_to_send # None /\ code_to_send[1] # <<>>
        THEN LET codes == MarkUsed(data.codes, code_to_send[1])
             IN  Send(ok, [data EXCEPT !.codes = codes], changed, TRUE,
                      Reply("code", TargetChat(data), TargetThread(data),
                            code_to_send, RemainingCount(data.codes), 0),
                      TRUE, None, code_to_send)
        ELSE Send(ok, data, changed, changed, ReplyTo(m, "exhausted"),
                  FALSE, None, None)

\* The /get branch.
HandleGet(m, data, changed, ok) ==
    LET code_to_send == FirstUnused(data.codes)
    IN  IF code_to_send # None /\ code_to_send[1] # <<>>
        THEN LET codes == MarkUsed(data.codes, code_to_send[1])
             IN  Send(ok, [data EXCEPT !.codes = codes], changed, TRUE,
                      Reply("code", TargetChat(data), TargetThread(data),
                            code_to_send, RemainingCount(codes), 0),
                      TRUE, None, code_to_send)
        ELSE Send(ok, data, changed, changed, ReplyTo(m, "exhausted"),
                  FALSE, None, None)

\* InsertNew without the "not in" test: a present candidate is stored again as unused.
RECURSIVE InsertAll(_, _)
InsertAll(codes, cands) ==
    IF cands = <<>> THEN codes
    ELSE InsertAll(DictSet(codes, Head(cands), [is_used |-> FALSE]), Tail(cands))

\* for code in codes: if code not in bot_data["codes"]: insert it unused
RECURSIVE InsertNew(_, _)
InsertNew(codes, cands) ==
    IF cands = <<>> THEN codes
    ELSE InsertNew(IF DictHas(codes, Head(cands)) THEN codes
                   ELSE DictSet(codes, Head(cands), [is_used |-> FALSE]),
                   Tail(cands))

\* NewCodesCount without the "not in" test: every candidate is counted.
CandidateCount(codes, cands) == Len(cands)

\* new_codes_count
NewCodesCount(codes, cands) == Len(InsertNew(codes, cands).keys) - Len(codes.keys)

\* The /add branch: the loop inserts, then the count decides the reply.
\* cands and codes are bound once each, as the Python names are.
Add(m, text, data, changed, ok) ==
    LET AddCodes(cands, codes, n) ==
            IF cands = <<>>
            THEN Send(ok, data, changed, changed, ReplyTo(m, "add_usage"),
                      FALSE, None, None)
            ELSE IF n > 0
            THEN Send(ok, [data EXCEPT !.codes = codes], changed, TRUE,
                      Reply("added", Some(m.chat), m.thread, None, n,
                            RemainingCount(codes)),
                      TRUE, None, None)
            ELSE Send(ok, [data EXCEPT !.codes = codes], changed, changed,
                      ReplyTo(m, "none_added"), FALSE, None, None)
    IN  CHOOSE r \in
            UNION {{AddCodes(cands, codes, NewCodesCount(data.codes, cands)) :
                        codes \in {InsertNew(data.codes, cands)}} :
                    cands \in {AddCandidates(text)}} : TRUE

HandleAdd(m, text, data, changed, ok) ==
    [Add(m, text, data, changed, ok) EXCEPT !.cands = Some(AddCandidates(text))]

\* A message that the loop passes over: no call is made, nothing changes.
Skip(data, changed) == Outcome(data, changed, <<>>, FALSE, 0, FALSE, None, None)

\* The body of "for update in updates" for one update.
HandleUpdate(m, data, changed, role, sends) ==
    IF m.text = None \/ m.text[1] = <<>> THEN Skip(data, changed)
    ELSE LET text == m.text[1]
         IN  IF StartsWith(text, "/set_topic")
             THEN HandleSetTopic(m, data, changed, role, sends)
             ELSE IF ~IsCorrectTopic(m, data) THEN Skip(data, changed)
             ELSE IF StartsWith(text, "/get") THEN HandleGet(m, data, changed, sends[1])
             ELSE IF StartsWith(text, "/add")
                  THEN HandleAdd(m, text, data, changed, sends[1])
                  ELSE Skip(data, changed)

\* ------------------------------------------------------------------ state
\* An invocation of main() runs as a process.  Where the scheduler starts the
\* next invocation only after the previous one has returned, all of them run
\* as process 1 (Scheduled); two invocations that overlap run as 1 and 2.
Procs == {1, 2}
Scheduled == {1}

VARIABLES
    db_data,       \* Redis key telegram_bot_data: None or Some(blob)
    db_offset,     \* Redis key telegram_bot_offset: None or Some(digit string)
    base,          \* update id of the last update the gateway no longer holds
    updates,       \* the updates the gateway holds; updates[i] has id base + i
    pc,            \* per invocation: the await it is at
    bot_data,      \* per invocation: bot_data
    offset,        \* per invocation: offset
    batch,         \* per invocation: updates, as returned by get_updates
    idx,           \* per invocation: position of the for loop in the batch
    data_changed,  \* per invocation: data_changed
    exit,          \* per invocation: how process_updates was left
    \* history variables
    out,           \* the messages delivered by the last handled update
    looked,        \* what get_chat_member gave for it, None without a lookup
    submitted,     \* the candidate lists of the /add commands handled so far
    handed,        \* the codes send_message delivered
    again,         \* the codes send_message delivered more than once
    binds,         \* the (chat, thread) pairs stored by a bind so far
    alloc,         \* per invocation: <<update id, code>> of every code marked
    db_alloc,      \* alloc of the invocation that wrote db_data last
    assigned,      \* per invocation: ids of the updates that assigned to bot_data
    snap,          \* per invocation: the two Redis keys when it started
    open           \* per invocation: the connections its process holds open

vars == <<db_data, db_offset, base, updates, pc, bot_data, offset, batch, idx,
          data_changed, exit, out, looked, submitted, handed, again, binds,
          alloc, db_alloc, assigned, snap, open>>

store == <<db_data, db_offset, db_alloc>>
gateway == <<base, updates>>
history == <<out, looked, submitted, handed, again, binds>>

NoBatch == <<>>
NoData == [config |-> EmptyDict, codes |-> EmptyDict]
NoSnap == [data |-> None, offset |-> None]

\* What a process of the program holds: bot.session and redis_client.
Connections == {"session", "redis"}

\* A store as an earlier run of the program can leave it.
\* Fresh: nothing was ever written.
\* Stocked(cands): the last two updates were a bind in chat 1, thread 5 and an
\* /add of the codes cands.
FreshStore ==
    [data |-> None, offset |-> None, binds |-> {}, submitted |-> {}]
StockedData(cands) ==
    [config |-> BindConfig(EmptyDict, Topic1), codes |-> InsertNew(EmptyDict, cands)]
StockedStore(cands) ==
    [data |-> Some(JsonDumps(StockedData(cands))), offset |-> Some(IntToStr(StartBase)),
     binds |-> {<<Some(Topic1.chat), Topic1.thread>>}, submitted |-> {cands}]
InitialStores ==
    {FreshStore, StockedStore(<<<<"A">>>>), StockedStore(<<<<"A">>, <<"B">>>>)}

Init ==
    \E s \in InitialStores :
        /\ db_data = s.data
        /\ db_offset = s.offset
        /\ binds = s.binds
        /\ submitted = s.submitted
        /\ base = StartBase
        /\ updates = <<>>
        /\ pc = [p \in Procs |-> "idle"]
        /\ bot_data = [p \in Procs |-> NoData]
        /\ offset = [p \in Procs |-> None]
        /\ batch = [p \in Procs |-> NoBatch]
        /\ idx = [p \in Procs |-> 0]
        /\ data_changed = [p \in Procs |-> FALSE]
        /\ exit = [p \in Procs |-> "none"]
        /\ out = <<>>
        /\ looked = None
        /\ handed = {}
        /\ again = {}
        /\ alloc = [p \in Procs |-> {}]
        /\ db_alloc = {}
        /\ assigned = [p \in Procs |-> {}]
        /\ snap = [p \in Procs |-> NoSnap]
        /\ open = [p \in Procs |-> {}]

\* ---------------------------------------------------------------- actions
\* Raise without the try/finally of main(): the exception ends the invocation.
RaiseNoFinally(p) ==
    /\ pc' = [pc EXCEPT ![p] = "idle"]
    /\ exit' = [exit EXCEPT ![p] = "aborted"]

\* An exception leaves process_updates: main() goes on to its finally block.
Raise(p) ==
    /\ pc' = [pc EXCEPT ![p] = "closing"]
    /\ exit' = [exit EXCEPT ![p] = "aborted"]

\* bot_data = await load_data()
LoadData(p) ==
    /\ pc[p] = "idle"
    /\ bot_data' = [bot_data EXCEPT ![p] = LoadedData(db_data)]
    /\ alloc' = [alloc EXCEPT ![p] = db_alloc]
    /\ snap' = [snap EXCEPT ![p] = [data |-> db_data, offset |-> db_offset]]
    /\ open' = [open EXCEPT ![p] = Connections]
    /\ pc' = [pc EXCEPT ![p] = "read_offset"]
    /\ UNCHANGED <<store, gateway, offset, batch, idx, data_changed, exit, history,
                   assigned>>

\* redis_client.get(REDIS_DATA_KEY) raises
LoadDataFails(p) ==
    /\ pc[p] = "idle"
    /\ Raise(p)
    /\ snap' = [snap EXCEPT ![p] = [data |-> db_data, offset |-> db_offset]]
    /\ open' = [open EXCEPT ![p] = Connections]
    /\ UNCHANGED <<store, gateway, bot_data, offset, batch, idx, data_changed,
                   history, alloc, assigned>>

\* offset = await redis_client.get(REDIS_OFFSET_KEY); offset = int(offset) + 1 ...
ReadOffset(p) ==
    /\ pc[p] = "read_offset"
    /\ offset' = [offset EXCEPT ![p] = NextOffset(db_offset)]
    /\ pc' = [pc EXCEPT ![p] = "get_updates"]
    /\ UNCHANGED <<store, gateway, bot_data, batch, idx, data_changed, exit,
                   history, alloc, assigned, snap, open>>

\* redis_client.get(REDIS_OFFSET_KEY) raises
ReadOffsetFails(p) ==
    /\ pc[p] = "read_offset"
    /\ Raise(p)
    /\ UNCHANGED <<store, gateway, bot_data, offset, batch, idx, data_changed,
                   history, alloc, assigned, snap, open>>

\* The updates a long poll can find newly arrived at the gateway.
Arrivals(room) == UNION {[1..n -> Messages] : n \in 0..room}

\* Updates that arrived since the behaviour started.
Arrived == base - StartBase + Len(updates)

\* get_updates(offset=off) confirms the updates below off: the gateway drops them.
Confirmed(first, n, off) ==
    IF off = None \/ off[1] - 1 <= first THEN 0
    ELSE IF off[1] - 1 - first >= n THEN n ELSE off[1] - 1 - first

\* What get_updates returns from the held updates, the first of which has id
\* first + 1: all of them, in ascending id order.
Fetched(held, first) ==
    [i \in 1..Len(held) |-> [update_id |-> first + i, message |-> held[i]]]

\* The gateway after a poll with offset off during which new arrived: the
\* updates it still holds, the id before the first of them, and the batch.
Polled(new, off) ==
    LET all  == updates \o new
        k    == Confirmed(base, Len(all), off)
        held == SubSeq(all, k + 1, Len(all))
    IN  [held |-> held, base |-> base + k, got |-> Fetched(held, base + k)]

\* GetUpdates without the early return on an empty batch: the cursor is set
\* to the offset that was asked for.
GetUpdatesSetsOffset(p) ==
    /\ pc[p] = "get_updates"
    /\ \E new \in Arrivals(MaxUpdates - Arrived) :
          \E g \in {Polled(new, offset[p])} :
              /\ updates' = g.held
              /\ base' = g.base
              /\ batch' = [batch EXCEPT ![p] = g.got]
              /\ IF g.got = <<>>
                 THEN /\ pc' = [pc EXCEPT ![p] = "closing"]
                      /\ exit' = [exit EXCEPT ![p] = "empty"]
                      /\ idx' = idx
                      /\ db_offset' = IF offset[p] = None THEN db_offset
                                      ELSE Some(IntToStr(offset[p][1]))
                 ELSE /\ pc' = [pc EXCEPT ![p] = "loop"]
                      /\ exit' = exit
                      /\ idx' = [idx EXCEPT ![p] = 1]
                      /\ db_offset' = db_offset
    /\ data_changed' = [data_changed EXCEPT ![p] = FALSE]
    /\ UNCHANGED <<db_data, db_alloc, bot_data, offset, history, alloc, assigned,
                   snap, open>>

\* updates = await bot.get_updates(offset=offset, ...), then "if not updates: return"
GetUpdates(p) ==
    /\ pc[p] = "get_updates"
    /\ \E new \in Arrivals(MaxUpdates - Arrived) :
          \E g \in {Polled(new, offset[p])} :
              /\ updates' = g.held
              /\ base' = g.base
              /\ batch' = [batch EXCEPT ![p] = g.got]
              /\ IF g.got = <<>>
                 THEN /\ pc' = [pc EXCEPT ![p] = "closing"]
                      /\ exit' = [exit EXCEPT ![p] = "empty"]
                      /\ idx' = idx
                 ELSE /\ pc' = [pc EXCEPT ![p] = "loop"]
                      /\ exit' = exit
                      /\ idx' = [idx EXCEPT ![p] = 1]
    /\ data_changed' = [data_changed EXCEPT ![p] = FALSE]
    /\ UNCHANGED <<store, bot_data, offset, history, alloc, assigned, snap, open>>

\* bot.get_updates raises: logged, process_updates returns
GetUpdatesFails(p) ==
    /\ pc[p] = "get_updates"
    /\ pc' = [pc EXCEPT ![p] = "closing"]
    /\ exit' = [exit EXCEPT ![p] = "fetch_failed"]
    /\ UNCHANGED <<store, gateway, bot_data, offset, batch, idx, data_changed,
                   history, alloc, assigned, snap, open>>

\* The outcomes handling the update at idx can have: the role lookup answers
\* with any of Roles, the sends succeed as in one of outcomes.
Handlings(p, outcomes) ==
    {HandleUpdate(batch[p][idx[p]].message, bot_data[p], data_changed[p], role, sends) :
        role \in Roles, sends \in outcomes}

\* One pass of the for loop with outcome r for the update at idx.
HandleOne(p, r) ==
    /\ bot_data' = [bot_data EXCEPT ![p] = r.data]
    /\ data_changed' = [data_changed EXCEPT ![p] = r.changed]
    /\ out' = r.out
    /\ looked' = r.looked
    /\ submitted' = IF r.cands # None /\ r.cands[1] # <<>> /\ ~r.abort
                    THEN submitted \cup {r.cands[1]} ELSE submitted
    /\ handed' = IF r.marked # None /\ r.out # <<>>
                 THEN handed \cup {r.marked[1]} ELSE handed
    /\ again' = IF r.marked # None /\ r.out # <<>> /\ r.marked[1] \in handed
                THEN again \cup {r.marked[1]} ELSE again
    /\ binds' = IF r.bound # None THEN binds \cup {r.bound[1]} ELSE binds
    /\ alloc' = IF r.marked # None
                THEN [alloc EXCEPT ![p] =
                          @ \cup {<<batch[p][idx[p]].update_id, r.marked[1]>>}]
                ELSE alloc
    /\ assigned' = IF r.assigned
                   THEN [assigned EXCEPT ![p] = @ \cup {batch[p][idx[p]].update_id}]
                   ELSE assigned
    /\ IF r.abort
       THEN /\ pc' = [pc EXCEPT ![p] = "closing"]
            /\ exit' = [exit EXCEPT ![p] = "aborted"]
            /\ idx' = idx
       ELSE /\ pc' = [pc EXCEPT ![p] = IF idx[p] = Len(batch[p]) THEN "save" ELSE "loop"]
            /\ exit' = exit
            /\ idx' = [idx EXCEPT ![p] = @ + 1]

\* Whether each reply the handler attempts is delivered.
AllSent == [i \in 1..2 |-> TRUE]
SendOutcomes == [1..2 -> BOOLEAN]

\* One pass of the loop in which every send is delivered.
ProcessUpdate(p) ==
    /\ pc[p] = "loop"
    /\ \E r \in Handlings(p, {AllSent}) : HandleOne(p, r)
    /\ UNCHANGED <<store, gateway, offset, batch, snap, open>>

\* One pass of the loop in which a send raises.
ProcessUpdateSendFails(p) ==
    /\ pc[p] = "loop"
    /\ \E r \in Handlings(p, SendOutcomes) : r.fails > 0 /\ HandleOne(p, r)
    /\ UNCHANGED <<store, gateway, offset, batch, snap, open>>

\* if data_changed: await save_data(bot_data)
SaveData(p) ==
    /\ pc[p] = "save"
    /\ IF data_changed[p]
       THEN /\ db_data' = Some(JsonDumps(bot_data[p]))
            /\ db_alloc' = alloc[p]
       ELSE UNCHANGED <<db_data, db_alloc>>
    /\ pc' = [pc EXCEPT ![p] = "set_offset"]
    /\ UNCHANGED <<db_offset, gateway, bot_data, offset, batch, idx, data_changed,
                   exit, history, alloc, assigned, snap, open>>

\* SaveDataFails with the exception caught and logged, as the fetch does:
\* process_updates goes on to the cursor.
SaveDataFailsLogged(p) ==
    /\ pc[p] = "save"
    /\ data_changed[p]
    /\ pc' = [pc EXCEPT ![p] = "set_offset"]
    /\ UNCHANGED <<store, gateway, bot_data, offset, batch, idx, data_changed,
                   exit, history, alloc, assigned, snap, open>>

\* redis_client.set(REDIS_DATA_KEY, ...) raises
SaveDataFails(p) ==
    /\ pc[p] = "save"
    /\ data_changed[p]
    /\ Raise(p)
    /\ UNCHANGED <<store, gateway, bot_data, offset, batch, idx, data_changed,
                   history, alloc, assigned, snap, open>>

\* LastUpdateId taking the wrong end: updates[0].update_id
FirstUpdateId(b) == b[1].update_id

\* updates[-1].update_id
LastUpdateId(b) == b[Len(b)].update_id

\* if updates: await redis_client.set(REDIS_OFFSET_KEY, updates[-1].update_id)
SetOffset(p) ==
    /\ pc[p] = "set_offset"
    /\ IF batch[p] # <<>>
       THEN db_offset' = Some(IntToStr(LastUpdateId(batch[p])))
       ELSE UNCHANGED db_offset
    /\ pc' = [pc EXCEPT ![p] = "closing"]
    /\ exit' = [exit EXCEPT ![p] = "ok"]
    /\ UNCHANGED <<db_data, db_alloc, gateway, bot_data, offset, batch, idx,
                   data_changed, history, alloc, assigned, snap, open>>

\* redis_client.set(REDIS_OFFSET_KEY, ...) raises
SetOffsetFails(p) ==
    /\ pc[p] = "set_offset"
    /\ batch[p] # <<>>
    /\ Raise(p)
    /\ UNCHANGED <<store, gateway, bot_data, offset, batch, idx, data_changed,
                   history, alloc, assigned, snap, open>>

\* main(): the finally block closes the session and the Redis client; the
\* process ends and its locals are gone.
Close(p) ==
    /\ pc[p] = "closing"
    /\ pc' = [pc EXCEPT ![p] = "idle"]
    /\ bot_data' = [bot_data EXCEPT ![p] = NoData]
    /\ offset' = [offset EXCEPT ![p] = None]
    /\ batch' = [batch EXCEPT ![p] = NoBatch]
    /\ idx' = [idx EXCEPT ![p] = 0]
    /\ data_changed' = [data_changed EXCEPT ![p] = FALSE]
    /\ exit' = [exit EXCEPT ![p] = "none"]
    /\ alloc' = [alloc EXCEPT ![p] = {}]
    /\ assigned' = [assigned EXCEPT ![p] = {}]
    /\ snap' = [snap EXCEPT ![p] = NoSnap]
    /\ open' = [open EXCEPT ![p] = {}]
    /\ out' = <<>>
    /\ looked' = None
    /\ UNCHANGED <<store, gateway, submitted, handed, again, binds>>

\* A step of an invocation in which no Redis call, fetch or send raises (a role
\* lookup may still raise: the handler catches it).
Step(p) ==
    \/ LoadData(p)
    \/ ReadOffset(p)
    \/ GetUpdates(p)
    \/ ProcessUpdate(p)
    \/ SaveData(p)
    \/ SetOffset(p)
    \/ Close(p)

\* A step in which an external call raises.
Fault(p) ==
    \/ LoadDataFails(p)
    \/ ReadOffsetFails(p)
    \/ GetUpdatesFails(p)
    \/ ProcessUpdateSendFails(p)
    \/ SaveDataFails(p)
    \/ SetOffsetFails(p)

\* Invocations one after the other, any external call may raise.
Next == \E p \in Scheduled : Step(p) \/ Fault(p)

Spec == Init /\ [][Next]_vars

\* Invocations one after the other, no Redis call, fetch or send raises.
NextReliable == \E p \in Scheduled : Step(p)

SpecReliable == Init /\ [][NextReliable]_vars

\* What is fair to a started invocation: asyncio.run drives it, and every
\* awaited call returns or raises (the long poll has a timeout).
FairSteps(p) ==
    /\ WF_vars(ReadOffset(p) \/ ReadOffsetFails(p))
    /\ WF_vars(GetUpdates(p) \/ GetUpdatesFails(p))
    /\ WF_vars(ProcessUpdate(p) \/ ProcessUpdateSendFails(p))
    /\ WF_vars(SaveData(p) \/ SaveDataFails(p))
    /\ WF_vars(SetOffset(p) \/ SetOffsetFails(p))
    /\ WF_vars(Close(p))

\* The messages that arrive in the runs whose progress is stated: a command
\* that sends with send_message and one that replies inside a try block.
LiveMessages == {Msg(Topic1, Some(TextGet)), Msg(Topic1, Some(TextSetTopic))}
LiveInput == \A i \in 1..Len(updates) : updates[i] \in LiveMessages

\* Invocations one after the other, any external call may raise, and every
\* started invocation goes on.
NextLive == \E p \in Scheduled : (Step(p) \/ Fault(p)) /\ LiveInput'

SpecLive == Init /\ [][NextLive]_vars /\ \A p \in Scheduled : FairSteps(p)

\* The messages that arrive while two invocations overlap: the two commands
\* that change the codes, sent from the first topic.
OverlapMessages == {Msg(Topic1, Some(TextGet)), Msg(Topic1, Some(TextAddBBA))}
OverlapInput == \A i \in 1..Len(updates) : updates[i] \in OverlapMessages

\* Two invocations that overlap: each takes its steps on its own, with no lock
\* around the two Redis keys; no Redis call, fetch or send raises.
NextConcurrent == \E p \in Procs : Step(p) /\ OverlapInput'

SpecConcurrent == Init /\ [][NextConcurrent]_vars

\* ----------------------------------------------------- vocabulary of claims
\* The step handles the update at idx[p]: the loop moves on or is left.
Handled(p) == pc[p] = "loop" /\ (idx'[p] = idx[p] + 1 \/ pc'[p] = "closing")

\* The message that such a step handles.
Cur(p) == batch[p][idx[p]].message

TextOf(m) == IF m.text = None THEN <<>> ELSE m.text[1]
Begins(m, tok) == TextOf(m) # <<>> /\ TextOf(m)[1] = tok

KeySet(d) == {d.keys[i] : i \in 1..Len(d.keys)}
BindKeys == {"target_chat_id", "target_thread_id"}

\* The bound (chat, thread) pair of a state, None while a key is missing.
BoundPair(data) ==
    IF BindKeys \subseteq KeySet(data.config)
    THEN Some(<<data.config.val["target_chat_id"], data.config.val["target_thread_id"]>>)
    ELSE None

InBoundThread(m, data) == BoundPair(data) = Some(<<Some(m.chat), m.thread>>)

Unused(codes) == {k \in KeySet(codes) : ~codes.val[k].is_used}
Used(codes) == {k \in KeySet(codes) : codes.val[k].is_used}

\* The handler left bot_data and data_changed of p alone.
Untouched(p) == bot_data'[p] = bot_data[p] /\ data_changed'[p] = data_changed[p]

\* Exactly one message was delivered, of this kind.
OneReply(o, kind) == Len(o) = 1 /\ o[1].kind = kind

\* The persisted blob read as keys and values.
BlobKeys(j) == {j[i][1] : i \in 1..Len(j)}
BlobVal(j, k) == j[CHOOSE i \in 1..Len(j) : j[i][1] = k][2]
StoredCodes == IF db_data = None THEN <<>> ELSE db_data[1].codes
StoredConfig == IF db_data = None THEN <<>> ELSE db_data[1].config

\* ------------------------------------------------------------------ claims
\* C1: with no Redis call, fetch or send raising, a /get handled in the bound thread while unused
\* codes remain marks exactly one of them used and sends that code, which was
\* never sent before; with none remaining it sends the exhaustion reply and
\* leaves bot_data and data_changed as they were.  So N unused codes serve N
\* consecutive /get with N different codes and the next one is refused.
C1_ExactlyOnce ==
    [][\A p \in Procs :
         (Handled(p) /\ Begins(Cur(p), "/get") /\ InBoundThread(Cur(p), bot_data[p]))
         => IF Unused(bot_data[p].codes) = {}
            THEN /\ Untouched(p)
                 /\ OneReply(out', "exhausted")
                 /\ handed' = handed
            ELSE \E c \in Unused(bot_data[p].codes) :
                    /\ Unused(bot_data'[p].codes) = Unused(bot_data[p].codes) \ {c}
                    /\ Used(bot_data'[p].codes) = Used(bot_data[p].codes) \cup {c}
                    /\ data_changed'[p]
                    /\ OneReply(out', "code")
                    /\ out'[1].code = Some(c)
                    /\ c \notin handed
                    /\ handed' = handed \cup {c}]_vars

\* A code was handed out, and the /get after the last unused code was refused.
C1_Witness ==
    \E p \in Procs :
        /\ pc[p] = "save"
        /\ Len(batch[p]) = 2
        /\ \A i \in 1..2 : Begins(batch[p][i].message, "/get")
        /\ OneReply(out, "exhausted")
        /\ handed # {}
        /\ again = {}

\* C2 as stated: a message from outside the bound thread, whatever its text,
\* is answered by nothing and changes nothing.
C2_AnyTextOutsideIgnored ==
    [][\A p \in Procs :
         (Handled(p) /\ ~InBoundThread(Cur(p), bot_data[p]))
         => (out' = <<>> /\ Untouched(p))]_vars

\* C2, amended: a message from outside the bound thread whose text does not
\* begin with /set_topic is answered by nothing and changes nothing; with an
\* unbound config this is every such message.
C2_TopicIsolation ==
    [][\A p \in Procs :
         (Handled(p) /\ ~InBoundThread(Cur(p), bot_data[p])
            /\ ~Begins(Cur(p), "/set_topic"))
         => (out' = <<>> /\ Untouched(p) /\ pc'[p] # "closing")]_vars

\* An /add from outside the bound thread has just been passed over.
C2_Witness ==
    \E p \in Procs :
        /\ pc[p] \in {"loop", "save"}
        /\ idx[p] > 1
        /\ Begins(batch[p][idx[p] - 1].message, "/add")
        /\ BoundPair(bot_data[p]) # None
        /\ ~InBoundThread(batch[p][idx[p] - 1].message, bot_data[p])
        /\ out = <<>>
        /\ ~data_changed[p]

\* C3 as stated: in the persisted state no update id has marked more than one
\* code, and a batch holds no update at or below the cursor its invocation read.
C3_NoDoubleAllocation ==
    /\ \A a, b \in db_alloc : a[1] = b[1] => a[2] = b[2]
    /\ \A p \in Procs : \A i \in 1..Len(batch[p]) :
          snap[p].offset # None
              => batch[p][i].update_id > StrToInt(snap[p].offset[1])

\* new extends old: every code of old is in new, and used in new if used in old.
Extends(oldKeys, oldUsed, newKeys, newUsed) ==
    oldKeys \subseteq newKeys /\ oldUsed \subseteq newUsed

StoredUsed(j) == {k \in BlobKeys(j) : BlobVal(j, k).is_used}

\* C4: no step removes a code from the persisted blob or from the bot_data of
\* a running invocation, and none turns a used code back into an unused one.
C4_CodesOnlyGrow ==
    [][/\ Extends(BlobKeys(StoredCodes), StoredUsed(StoredCodes),
                  BlobKeys(StoredCodes'), StoredUsed(StoredCodes'))
       /\ \A p \in Procs :
             pc'[p] # "idle"
             => Extends(KeySet(bot_data[p].codes), Used(bot_data[p].codes),
                        KeySet(bot_data'[p].codes), Used(bot_data'[p].codes))]_vars

\* An /add of a code that is present and used has been handled: it is still used.
C4_Witness ==
    \E p \in Procs :
        /\ pc[p] = "save"
        /\ idx[p] = 3
        /\ Begins(batch[p][1].message, "/get")
        /\ batch[p][2].message = Msg(Topic1, Some(TextAddA))
        /\ InBoundThread(batch[p][2].message, bot_data[p])
        /\ <<"A">> \in Used(bot_data[p].codes)
        /\ OneReply(out, "none_added")

\* C5: with no Redis call, fetch or send raising, an /add handled in the bound thread whose list of
\* candidates an earlier /add has submitted leaves bot_data and data_changed as
\* they were and is answered that no new codes were added.
C5_IdempotentAdd ==
    [][\A p \in Procs :
         (Handled(p) /\ Begins(Cur(p), "/add") /\ InBoundThread(Cur(p), bot_data[p])
            /\ AddCandidates(TextOf(Cur(p))) \in submitted)
         => (Untouched(p) /\ OneReply(out', "none_added"))]_vars

\* The same /add twice in one batch: the first added codes, the second none.
C5_Witness ==
    \E p \in Procs :
        /\ pc[p] = "save"
        /\ idx[p] = 3
        /\ batch[p][1].message = batch[p][2].message
        /\ Begins(batch[p][2].message, "/add")
        /\ assigned[p] = {batch[p][1].update_id}
        /\ OneReply(out, "none_added")

\* The highest update id of a batch.
MaxId(b) ==
    CHOOSE x \in {b[i].update_id : i \in 1..Len(b)} :
        \A i \in 1..Len(b) : b[i].update_id <= x

\* C6: when an invocation has fetched a batch and completed, the cursor holds
\* the highest update id of the batch; the blob holds the invocation's bot_data
\* when some update of the batch assigned to it, and is the blob the invocation
\* found when none did.
C6_PersistAfterBatch ==
    \A p \in Procs :
        exit[p] = "ok"
        => /\ batch[p] # <<>>
           /\ db_offset = Some(IntToStr(MaxId(batch[p])))
           /\ assigned[p] # {} => db_data = Some(JsonDumps(bot_data[p]))
           /\ assigned[p] = {} => db_data = snap[p].data

\* A batch of two updates, none of which changed anything, moved the cursor.
C6_Witness ==
    \E p \in Procs :
        /\ exit[p] = "ok"
        /\ Len(batch[p]) = 2
        /\ assigned[p] = {}
        /\ db_offset # snap[p].offset
        /\ db_data = snap[p].data

\* C7: an invocation whose fetch raised or returned nothing leaves both Redis
\* keys as it found them.
C7_NothingFetchedNothingWritten ==
    \A p \in Procs :
        exit[p] \in {"fetch_failed", "empty"}
        => (db_data = snap[p].data /\ db_offset = snap[p].offset)

\* A poll of a store that holds a cursor came back empty.
C7_Witness ==
    \E p \in Procs :
        /\ exit[p] = "empty"
        /\ db_offset # None
        /\ offset[p] # None

\* C8 as stated: an invocation that an exception aborted leaves both Redis keys
\* as it found them.
C8_NoPartialPersistence ==
    \A p \in Procs :
        exit[p] = "aborted"
        => (db_data = snap[p].data /\ db_offset = snap[p].offset)

\* A config is unbound, or holds both keys with the pair that one bind stored.
WellBound(keys, chat, thread) ==
    \/ keys \cap BindKeys = {}
    \/ (BindKeys \subseteq keys /\ <<chat, thread>> \in binds)

\* C9: the config of every invocation's bot_data and of the persisted blob is
\* unbound or holds the chat id and the thread id of one and the same bind.
C9_BindAtomic ==
    /\ \A p \in Procs :
          LET c == bot_data[p].config
          IN  WellBound(KeySet(c),
                        IF "target_chat_id" \in KeySet(c)
                        THEN c.val["target_chat_id"] ELSE None,
                        IF "target_thread_id" \in KeySet(c)
                        THEN c.val["target_thread_id"] ELSE None)
    /\ LET j == StoredConfig
       IN  WellBound(BlobKeys(j),
                     IF "target_chat_id" \in BlobKeys(j)
                     THEN BlobVal(j, "target_chat_id") ELSE None,
                     IF "target_thread_id" \in BlobKeys(j)
                     THEN BlobVal(j, "target_thread_id") ELSE None)

\* A second bind, from the other topic, has replaced a persisted binding.
C9_Witness ==
    /\ snap[1].data # None
    /\ BlobVal(snap[1].data[1].config, "target_chat_id") = Some(Topic1.chat)
    /\ exit[1] = "ok"
    /\ BlobVal(StoredConfig, "target_chat_id") = Some(Topic2.chat)
    /\ BlobVal(StoredConfig, "target_thread_id") = Topic2.thread

\* The sender of a /set_topic may bind: the lookup answered with a role that
\* is administrator or creator, and the message is a topic message.
MayBind(m, answer) ==
    answer \in {Some("administrator"), Some("creator")} /\ m.is_topic

\* C10: with no Redis call, fetch or send raising, a /set_topic whose sender may
\* not bind (the role is neither administrator nor creator, the lookup raised,
\* or the message is no topic message) leaves bot_data and data_changed as they
\* were and is answered by exactly one message; the config changes only when
\* the sender may bind.
C10_FailedBind ==
    [][\A p \in Procs :
         (Handled(p) /\ Begins(Cur(p), "/set_topic"))
         => /\ ~MayBind(Cur(p), looked') => (Untouched(p) /\ Len(out') = 1)
            /\ bot_data'[p].config # bot_data[p].config
               => MayBind(Cur(p), looked')]_vars

\* A /set_topic of a plain member in a topic was refused with one reply.
C10_Witness ==
    \E p \in Procs :
        /\ pc[p] \in {"loop", "save"}
        /\ idx[p] > 1
        /\ Begins(batch[p][idx[p] - 1].message, "/set_topic")
        /\ batch[p][idx[p] - 1].message.is_topic
        /\ looked = Some("member")
        /\ OneReply(out, "admin_only")
        /\ ~data_changed[p]

\* The code that the step of p delivers with send_message, None when it
\* delivers none.
Delivers(p) ==
    IF Handled(p) /\ OneReply(out', "code") THEN out'[1].code ELSE None

\* The codes that the blob an invocation loaded holds as used.
LoadedUsed(p) ==
    IF snap[p].data = None THEN {} ELSE StoredUsed(snap[p].data[1].codes)

\* C11: two invocations that overlap can hand out the same code twice
\* (C11_Witness is such a state), and every code that is handed out a second
\* time is handed out by an invocation that loaded a blob in which the code
\* was not marked used, while its own bot_data marks it used afterwards.
C11_SecondHandOutIsStale ==
    [][\A p \in Procs :
         (Delivers(p) # None /\ Delivers(p)[1] \in handed)
         => /\ Delivers(p)[1] \notin LoadedUsed(p)
            /\ Delivers(p)[1] \in Unused(bot_data[p].codes)
            /\ Delivers(p)[1] \in Used(bot_data'[p].codes)
            /\ Delivers(p)[1] \in again']_vars

\* Both invocations loaded the same blob and fetched the same /get, and both
\* have sent the same code in reply to it.
C11_Witness ==
    \E p, q \in Procs :
        /\ p # q
        /\ pc[p] = "save" /\ pc[q] = "save"
        /\ snap[p] = snap[q]
        /\ batch[p] = batch[q]
        /\ Len(batch[p]) = 1
        /\ Begins(batch[p][1].message, "/get")
        /\ OneReply(out, "code")
        /\ out[1].code[1] \in again
        /\ out[1].code[1] \in Used(bot_data[p].codes) \cap Used(bot_data[q].codes)

\* The codes of a stored value (None or a blob), and those it marks used.
CodesOf(stored) == IF stored = None THEN {} ELSE BlobKeys(stored[1].codes)
UsedOf(stored) == IF stored = None THEN {} ELSE StoredUsed(stored[1].codes)
ConfigOf(stored) == IF stored = None THEN {} ELSE BlobKeys(stored[1].config)

\* new keeps what old holds: its codes, their used marks and its binding keys.
Keeps(old, new) ==
    /\ Extends(CodesOf(old), UsedOf(old), CodesOf(new), UsedOf(new))
    /\ ConfigOf(old) \subseteq ConfigOf(new)

\* C12: two invocations that overlap can lose a persisted mutation
\* (C12_Witness is such a state), and it is lost in this way only: every write
\* of the blob keeps all that its invocation loaded, so a write that drops
\* something from the persisted blob is the write of an invocation that loaded
\* before the dropped mutation was persisted.
C12_WriteKeepsWhatWasLoaded ==
    [][\A q \in Procs :
         (pc[q] = "save" /\ pc'[q] = "set_offset" /\ db_data' # db_data)
         => /\ Keeps(snap[q].data, db_data')
            /\ ~Keeps(db_data, db_data') => snap[q].data # db_data]_vars

\* p marked a code used and persisted it with its cursor; q, which had loaded
\* the same blob as p, has then written its own copy: the mark is gone.
C12_Witness ==
    \E p, q \in Procs :
        /\ p # q
        /\ exit[p] = "ok" /\ data_changed[p]
        /\ pc[q] = "set_offset" /\ data_changed[q]
        /\ snap[p].data = snap[q].data
        /\ db_data = Some(JsonDumps(bot_data[q]))
        /\ \E c \in Used(bot_data[p].codes) :
              c \notin LoadedUsed(p) /\ c \notin UsedOf(db_data)

\* C13: an invocation holds no connection once it has returned, and every
\* invocation that holds one eventually has released both and returned,
\* however process_updates was left: completed, fetch failed, empty batch, or
\* an exception from a Redis call or a send.
C13_ConnectionsReleased ==
    /\ [](\A p \in Procs : pc[p] = "idle" => open[p] = {})
    /\ \A p \in Procs : (open[p] # {}) ~> (open[p] = {} /\ pc[p] = "idle")

\* An invocation sent a code, was then left by an exception before the blob
\* was written, and has returned with both connections released.
C13_Witness ==
    /\ pc[1] = "idle"
    /\ open[1] = {}
    /\ handed # {}
    /\ UsedOf(db_data) = {}

\* The persisted cursor as a number; -1 while the key is unset.
CursorValue(stored) == IF stored = None THEN -1 ELSE StrToInt(stored[1])

\* The step of p writes the cursor.
WritesCursor(p) ==
    pc[p] = "set_offset" /\ pc'[p] = "closing" /\ exit'[p] = "ok" /\ batch[p] # <<>>

\* C14: over invocations that do not overlap, every write of the cursor stores
\* a number greater than the cursor persisted before it, and no step lowers
\* or unsets the cursor.
C14_CursorIncreases ==
    [][/\ \A p \in Procs :
             WritesCursor(p) => CursorValue(db_offset') > CursorValue(db_offset)
       /\ CursorValue(db_offset') >= CursorValue(db_offset)
       /\ db_offset # None => db_offset' # None]_vars

\* An invocation that found the cursor at 9 has moved it to 10.
C14_Witness ==
    \E p \in Procs :
        /\ exit[p] = "ok"
        /\ snap[p].offset = Some(IntToStr(StartBase + 1))
        /\ CursorValue(db_offset) = StartBase + 2

\* The (chat, thread) pair that a stored value (None or a blob) binds.
PairOf(stored) ==
    IF stored = None \/ ~(BindKeys \subseteq BlobKeys(stored[1].config)) THEN None
    ELSE Some(<<BlobVal(stored[1].config, "target_chat_id"),
                BlobVal(stored[1].config, "target_thread_id")>>)

\* The positions before i at which the batch of p holds a /set_topic that bound.
BindsBefore(p, i) ==
    {j \in 1..(i - 1) : /\ Begins(batch[p][j].message, "/set_topic")
                         /\ batch[p][j].update_id \in assigned[p]}

\* The binding in force when p handles position i of its batch: that of the
\* last /set_topic before i that bound, else the one p loaded.
InForce(p, i) ==
    IF BindsBefore(p, i) = {} THEN PairOf(snap[p].data)
    ELSE LET j == CHOOSE k \in BindsBefore(p, i) : \A l \in BindsBefore(p, i) : l <= k
         IN  Some(<<Some(batch[p][j].message.chat), batch[p][j].message.thread>>)

\* The step answers the message it handles: a send was attempted.
Answers(p) == out' # <<>> \/ pc'[p] = "closing"

\* C15: a batch is handled in ascending order of update ids, one after the
\* other, and a /get or /add is answered exactly when it comes from the pair
\* that the last binding /set_topic before it in the batch stored, or, with no
\* such /set_topic before it, from the pair that the invocation loaded.
C15_BindTakesEffectInBatch ==
    [][\A p \in Procs :
         /\ \A i \in 1..(Len(batch[p]) - 1) :
               batch[p][i].update_id < batch[p][i + 1].update_id
         /\ (Handled(p) /\ (Begins(Cur(p), "/get") \/ Begins(Cur(p), "/add")))
            => (Answers(p)
                  <=> InForce(p, idx[p]) = Some(<<Some(Cur(p).chat), Cur(p).thread>>))]_vars

\* The blob bound the first topic; a batch bound the second topic and its
\* next message, a /get from the second topic, was served a code there.
C15_Witness ==
    \E p \in Procs :
        /\ pc[p] = "save"
        /\ idx[p] = 3
        /\ PairOf(snap[p].data) = Some(<<Some(Topic1.chat), Topic1.thread>>)
        /\ batch[p][1].message = Msg(Topic2, Some(TextSetTopic))
        /\ batch[p][2].message = Msg(Topic2, Some(TextGet))
        /\ batch[p][1].update_id \in assigned[p]
        /\ OneReply(out, "code")
        /\ out[1].chat = Some(Topic2.chat)

\* The keys of a persisted object, in document order.
BlobOrder(j) == [i \in 1..Len(j) |-> j[i][1]]

\* The candidates that are not in have, each once, in the order they come.
RECURSIVE NewInOrder(_, _)
NewInOrder(cands, have) ==
    IF cands = <<>> THEN <<>>
    ELSE IF Head(cands) \in have THEN NewInOrder(Tail(cands), have)
         ELSE <<Head(cands)>> \o NewInOrder(Tail(cands), have \cup {Head(cands)})

\* code is the earliest unused code of the sequence keys.
EarliestUnused(code, keys, unused) ==
    \E i \in 1..Len(keys) :
        /\ keys[i] = code
        /\ code \in unused
        /\ \A j \in 1..(i - 1) : keys[j] \notin unused

\* C16: a /get in the bound thread marks, and when the send is delivered
\* sends, the earliest code of the mapping's order that is unused; that order
\* is the order of insertion: an /add appends its new codes in the order of
\* the message behind the codes present, a write of the blob stores the
\* order, and a load gives it back.
C16_FirstUnusedInInsertionOrder ==
    [][\A p \in Procs :
         /\ (Handled(p) /\ Begins(Cur(p), "/get") /\ InBoundThread(Cur(p), bot_data[p])
               /\ Unused(bot_data[p].codes) # {})
            => \E c \in Unused(bot_data[p].codes) :
                  /\ EarliestUnused(c, bot_data[p].codes.keys, Unused(bot_data[p].codes))
                  /\ Used(bot_data'[p].codes) = Used(bot_data[p].codes) \cup {c}
                  /\ bot_data'[p].codes.keys = bot_data[p].codes.keys
                  /\ out' # <<>> => out'[1].code = Some(c)
         /\ (Handled(p) /\ Begins(Cur(p), "/add") /\ InBoundThread(Cur(p), bot_data[p]))
            => bot_data'[p].codes.keys =
                  bot_data[p].codes.keys
                      \o NewInOrder(AddCandidates(TextOf(Cur(p))), KeySet(bot_data[p].codes))
         /\ (pc[p] = "save" /\ pc'[p] = "set_offset" /\ db_data' # db_data)
            => BlobOrder(StoredCodes') = bot_data[p].codes.keys
         /\ (pc[p] = "idle" /\ pc'[p] = "read_offset")
            => bot_data'[p].codes.keys = BlobOrder(StoredCodes)]_vars

\* The blob held A before B, the first as used: a /get was served B.
C16_Witness ==
    \E p \in Procs :
        /\ pc[p] \in {"loop", "save"}
        /\ idx[p] = 2
        /\ snap[p].data # None
        /\ BlobOrder(snap[p].data[1].codes) = <<<<"A">>, <<"B">>>>
        /\ UsedOf(snap[p].data) = {<<"A">>}
        /\ Begins(batch[p][1].message, "/get")
        /\ OneReply(out, "code")
        /\ out[1].code = Some(<<"B">>)

\* The trimmed, non-empty lines of a text: the pieces without a newline that
\* begin and end with a word and have only blanks between them and the newline
\* (or the end of the text) on either side.
TrimmedLines(t) ==
    {SubSeq(t, a, b) : <<a, b>> \in
        {ab \in (1..Len(t)) \X (1..Len(t)) :
            /\ ab[1] <= ab[2]
            /\ ~IsSpace(t[ab[1]]) /\ ~IsSpace(t[ab[2]])
            /\ \A k \in ab[1]..ab[2] : t[k] # "NL"
            /\ \A k \in 1..(ab[1] - 1) :
                  (\A j \in k..(ab[1] - 1) : t[j] # "NL") => t[k] = "SP"
            /\ \A k \in (ab[2] + 1)..Len(t) :
                  (\A j \in (ab[2] + 1)..k : t[j] # "NL") => t[k] = "SP"}}

\* C17 as stated: the codes that an /add in the bound thread inserts are the
\* trimmed, non-empty lines of the text behind its leading command word that
\* are not yet present, each as it stands in the text.
C17_CandidatesAreLines ==
    [][\A p \in Procs :
         (Handled(p) /\ Begins(Cur(p), "/add") /\ InBoundThread(Cur(p), bot_data[p]))
         => KeySet(bot_data'[p].codes) =
               KeySet(bot_data[p].codes) \cup TrimmedLines(Tail(TextOf(Cur(p))))]_vars

\* The candidates of the /add that p handles, as a set.
CandidateSet(p) ==
    LET cands == AddCandidates(TextOf(Cur(p)))
    IN  {cands[i] : i \in 1..Len(cands)}

\* C18: an /add in the bound thread with at least one candidate leaves the
\* mapping with the codes it had, each as it was, plus the candidates that were
\* not present, each unused; the reply, when delivered, reports as added the
\* number of different candidates that were not present and as total the
\* number of unused codes afterwards (and says that none was added when all
\* candidates were present).
C18_AddInsertsAndCounts ==
    [][\A p \in Procs :
         (Handled(p) /\ Begins(Cur(p), "/add") /\ InBoundThread(Cur(p), bot_data[p])
            /\ CandidateSet(p) # {})
         => LET old == bot_data[p].codes
                new == bot_data'[p].codes
                added == CandidateSet(p) \ KeySet(old)
            IN  /\ KeySet(new) = KeySet(old) \cup CandidateSet(p)
                /\ \A k \in KeySet(old) : new.val[k] = old.val[k]
                /\ \A k \in added : new.val[k] = [is_used |-> FALSE]
                /\ out' # <<>>
                   => IF added = {} THEN OneReply(out', "none_added")
                      ELSE /\ OneReply(out', "added")
                           /\ out'[1].count = Cardinality(added)
                           /\ out'[1].total = Cardinality(Unused(new))]_vars

\* With A present and used, an /add of the lines B, B and A was answered:
\* one code added, one code available.
C18_Witness ==
    \E p \in Procs :
        /\ pc[p] = "save"
        /\ idx[p] = 3
        /\ Begins(batch[p][1].message, "/get")
        /\ batch[p][2].message = Msg(Topic1, Some(TextAddBBA))
        /\ OneReply(out, "added")
        /\ out[1].count = 1
        /\ out[1].total = 1
        /\ Used(bot_data[p].codes) = {<<"A">>}
        /\ Unused(bot_data[p].codes) = {<<"B">>}

\* C19: a /get in the bound thread while unused codes remain marks one code
\* used, and its reply, when delivered, is one message to the bound chat and
\* thread that carries that code and the number of codes unused after the
\* marking, which is one less than the number unused before.
C19_AllocateReply ==
    [][\A p \in Procs :
         (Handled(p) /\ Begins(Cur(p), "/get") /\ InBoundThread(Cur(p), bot_data[p])
            /\ Unused(bot_data[p].codes) # {})
         => \E c \in Unused(bot_data[p].codes) :
               /\ Unused(bot_data'[p].codes) = Unused(bot_data[p].codes) \ {c}
               /\ out' = <<>> => pc'[p] = "closing"
               /\ out' # <<>>
                  => /\ OneReply(out', "code")
                     /\ BoundPair(bot_data[p]) = Some(<<out'[1].chat, out'[1].thread>>)
                     /\ out'[1].code = Some(c)
                     /\ out'[1].count = Cardinality(Unused(bot_data'[p].codes))
                     /\ out'[1].count = Cardinality(Unused(bot_data[p].codes)) - 1]_vars

\* With A and B unused, a /get was served A in the bound thread: one left.
C19_Witness ==
    \E p \in Procs :
        /\ pc[p] \in {"loop", "save"}
        /\ idx[p] = 2
        /\ Begins(batch[p][1].message, "/get")
        /\ OneReply(out, "code")
        /\ out[1].code = Some(<<"A">>)
        /\ out[1].chat = Some(Topic1.chat)
        /\ out[1].thread = Topic1.thread
        /\ out[1].count = 1
        /\ Unused(bot_data[p].codes) = {<<"B">>}

\* C20: over invocations that do not overlap, with any external call failing,
\* whenever the persisted cursor is at or past an update that assigned to the
\* bot_data of the running invocation, the persisted blob is that bot_data,
\* with every code that the update marked used in it: the cursor is never
\* moved past a mutation that was not saved.
C20_CursorBehindUnsaved ==
    \A p \in Procs : \A u \in assigned[p] :
        u <= CursorValue(db_offset)
        => /\ db_data = Some(JsonDumps(bot_data[p]))
           /\ \A a \in alloc[p] : a[1] = u => a[2] \in UsedOf(db_data)

\* The first update of a batch of two marked a code; the blob was written,
\* then the cursor was moved past both.
C20_Witness ==
    \E p \in Procs :
        /\ exit[p] = "ok"
        /\ Len(batch[p]) = 2
        /\ assigned[p] = {batch[p][1].update_id}
        /\ \E a \in alloc[p] : a[1] = batch[p][1].update_id
        /\ CursorValue(db_offset) = batch[p][2].update_id
        /\ db_data # snap[p].data

====
